---- MODULE Spec2Model ----
(***************************************************************************)
(* A model of stimela.kitchen.step: the Step dataclass (construction,      *)
(* finalize, prevalidate, run) and resolve_dotted_reference.               *)
(*                                                                         *)
(* Python values are encoded as follows.                                   *)
(*  - None is the string None; a str is a TLA+ string; a dotted key is the *)
(*    sequence of its '.'-separated segments (so "a.b" is <<"a","b">>, "." *)
(*    is <<"","">> and a name without a dot is a one-element sequence).    *)
(*  - A dict is a function whose domain is its key set.                    *)
(*  - An object is an entry of the heap, named by its address (a positive  *)
(*    number); 0 is the None reference.                                    *)
(*  - A value of the recipe field or of a configuration section is a       *)
(*    record [t, path, def, obj, sub] carrying its Python type t.          *)
(***************************************************************************)
EXTENDS Naturals, Sequences, FiniteSets, TLC

VARIABLES
    steps,              \* the Step objects that exist: name -> fields
    heap,               \* the cargo objects (Cab / Recipe): address -> fields
    _instantiated_cabs, \* Step._instantiated_cabs: cab name -> address
    nextId,             \* next free heap address
    current,            \* subst.current of the shared substitution namespace
    opts_backend,       \* stimela.CONFIG.opts.backend
    threads,            \* the finalize calls in progress in other threads: step -> position
    last                \* observation of the most recent call

vars == <<steps, heap, _instantiated_cabs, nextId, current, opts_backend, threads, last>>

-----------------------------------------------------------------------------
(* Values *)

None == "<None>"
UnresolvedV == "<Unresolved>"   \* an instance of scabha.validate.Unresolved
ErrorV == "<Error>"             \* an instance of scabha.exceptions.Error
PyTrue == "bool:True"
PyFalse == "bool:False"

StepValidationError == "StepValidationError"
NameError == "NameError"
TypeError == "TypeError"
ScabhaBaseException == "ScabhaBaseException"
RuntimeError == "RuntimeError"
CargoException == "Exception"

EmptyMap == [k \in {} |-> None]

\* dict.update: b's entries over a's
Update(a, b) == [k \in (DOMAIN a) \cup (DOMAIN b) |-> IF k \in DOMAIN b THEN b[k] ELSE a[k]]

\* typed values held by Step.recipe and by configuration entries
Val(t, path, def, obj, sub) == [t |-> t, path |-> path, def |-> def, obj |-> obj, sub |-> sub]
NoneVal == Val("NoneType", <<>>, "", 0, EmptyMap)
Str(path) == Val("str", path, "", 0, EmptyMap)
DictConfig(def, sub) == Val("DictConfig", <<>>, def, 0, sub)
RecipeObj(addr) == Val("Recipe", <<>>, "", addr, EmptyMap)

\* bool(x) of a str-or-None field
TruthyStr(x) == x \notin {None, ""}

\* bool(x) of a typed value
Truthy(v) ==
    CASE v.t = "NoneType" -> FALSE
      [] v.t = "str" -> v.path # <<"">>
      [] v.t = "DictConfig" -> DOMAIN v.sub # {}
      [] OTHER -> TRUE

-----------------------------------------------------------------------------
(* The configuration and the external definitions the step is bound to *)

ParamNames == {"x", "y"}

\* definitions from which Recipe(**...) can be instantiated
GoodRecipeDefs == {"sub"}

\* config.lib.recipes
lib_recipes ==
    [n \in {"sub", "broken", "empty"} |->
        CASE n = "sub" -> DictConfig("sub", [k \in {"steps"} |-> DictConfig("", EmptyMap)])
          [] n = "broken" -> DictConfig("broken", [k \in {"stepz"} |-> DictConfig("", EmptyMap)])
          [] OTHER -> NoneVal]

\* config.cabs: the declared cab definitions ("badcab" is declared but Cab(**...) raises on it)
config_cabs == {"copy", "sim", "badcab"}
GoodCabDefs == {"copy", "sim"}

\* stimela.CONFIG as a tree of sections
CONFIG ==
    DictConfig("", [k \in {"cabs", "lib", "opts"} |->
        CASE k = "cabs" -> DictConfig("", [c \in config_cabs |-> DictConfig(c, EmptyMap)])
          [] k = "lib" -> DictConfig("", [l \in {"recipes"} |-> DictConfig("", lib_recipes)])
          [] OTHER -> DictConfig("", [o \in {"log"} |-> DictConfig("", EmptyMap)])])

\* cargo.backend of a freshly built cargo
CargoBackend(def) == IF def = "sim" THEN "kube" ELSE None

\* schema.default of the entries of cargo.inputs_outputs
SchemaDefault(def) ==
    CASE def = "copy" -> [n \in ParamNames |-> IF n = "x" THEN "7" ELSE UnresolvedV]
      [] def = "sim" -> [n \in ParamNames |-> IF n = "x" THEN "7" ELSE None]
      [] OTHER -> [n \in ParamNames |-> IF n = "x" THEN None ELSE "7"]

\* cargo.defaults
CargoDefaults(def) ==
    CASE def = "sim" -> [n \in ParamNames |-> IF n = "x" THEN "5" ELSE "9"]
      [] OTHER -> EmptyMap

\* cargo.outputs (names); the other names are inputs
CargoOutputs(def) == {"y"}

-----------------------------------------------------------------------------
(* Step.__post_init__ *)

\* a preset that knows the tokens "True" and "False" alone
SkipPreset_capitalized(skip) ==
    IF skip = "True" THEN PyTrue
    ELSE IF skip \in {"False", "", None} THEN PyFalse
    ELSE None

\* the preset of self._skip from the skip attribute
SkipPreset(skip) ==
    IF skip \in {"True", "true", "1"} THEN PyTrue
    ELSE IF skip \in {"False", "false", "0", "", None} THEN PyFalse
    ELSE None

\* the dataclass constructor: the exception it raises, and the Step it builds otherwise
post_init(name, cab, recipe, params, skip, backend) ==
    IF TruthyStr(cab) = Truthy(recipe)
    THEN [raised |-> StepValidationError, step |-> None]
    ELSE [raised |-> None,
          step |-> [name |-> name, fqname |-> name, cab |-> cab, recipe |-> recipe,
                    params |-> params, skip |-> skip, backend |-> backend,
                    cargo |-> 0, validated_params |-> EmptyMap, validated_none |-> TRUE,
                    _skip |-> SkipPreset(skip), defaults |-> EmptyMap]]

-----------------------------------------------------------------------------
(* resolve_dotted_reference *)

\* the for loop over path[:-1], from position i on
RECURSIVE walk(_, _, _)
walk(section, path, i) ==
    IF i >= Len(path) THEN [raised |-> None, section |-> section]
    ELSE IF path[i] = "" THEN [raised |-> NameError, section |-> section]
    ELSE IF section.t # "DictConfig" THEN [raised |-> TypeError, section |-> section]
    ELSE IF path[i] \in DOMAIN section.sub THEN walk(section.sub[path[i]], path, i + 1)
    ELSE [raised |-> NameError, section |-> section]

\* key is the split key; the result is the exception raised, or (section, varname)
resolve_dotted_reference(key, base, cur) ==
    IF key[1] # ""
    THEN LET r == walk(base, key, 1)
         IN [raised |-> r.raised, section |-> r.section, varname |-> key[Len(key)]]
    ELSE IF ~Truthy(cur)
    THEN [raised |-> NameError, section |-> cur, varname |-> ""]
    ELSE LET path == Tail(key)
         IN IF path = <<>>
            THEN [raised |-> NameError, section |-> cur, varname |-> ""]
            ELSE LET r == walk(cur, path, 1)
                 IN [raised |-> r.raised, section |-> r.section, varname |-> path[Len(path)]]

-----------------------------------------------------------------------------
(* Step.finalize *)

\* a world is the part of the state finalize reads and writes
World(st, hp, cabs, nid) == [steps |-> st, heap |-> hp, cabs |-> cabs, nextId |-> nid]

NewCargo(type, def, backend) ==
    [type |-> type, def |-> def, name |-> "", backend |-> backend, finalized |-> FALSE]

SetStep(w, s, st) == [w EXCEPT !.steps = [@ EXCEPT ![s] = st]]
Alloc(w, obj) == [w EXCEPT !.heap = Update(@, [a \in {w.nextId} |-> obj]), !.nextId = @ + 1]
Raise(w, exc) == [w |-> w, raised |-> exc]
Ok(w) == [w |-> w, raised |-> None]

\* a finalize that does not notice the step is bound
finalized_never(st) == FALSE

\* the finalized property
finalized(st) == st.cargo # 0

\* lines 139-144: r is what resolve_dotted_reference made of the dotted name
LookupDotted(w, s, r) ==
    IF r.raised # None THEN Raise(w, r.raised)
    ELSE IF r.section.t # "DictConfig" THEN Raise(w, TypeError)
    ELSE IF r.varname \notin DOMAIN r.section.sub THEN Raise(w, StepValidationError)
    ELSE Ok(SetStep(w, s, [w.steps[s] EXCEPT !.recipe = r.section.sub[r.varname]]))

\* lines 129-144: a recipe given by name is looked up and replaces self.recipe
LookupRecipe(w, s) ==
    LET st == w.steps[s]
        key == st.recipe.path
    IN IF st.recipe.t # "str" THEN Ok(w)
       ELSE IF Len(key) = 1
       THEN IF key[1] \notin DOMAIN lib_recipes
            THEN Raise(w, StepValidationError)
            ELSE Ok(SetStep(w, s, [st EXCEPT !.recipe = lib_recipes[key[1]]]))
       ELSE LookupDotted(w, s, resolve_dotted_reference(key, CONFIG, NoneVal))

\* lines 146-153: l is the outcome of the lookup
InstantiateRecipe(l, s) ==
    IF l.raised # None THEN l
    ELSE LET st == l.w.steps[s]
         IN IF st.recipe.t = "DictConfig"
            THEN IF st.recipe.def \in GoodRecipeDefs
                 THEN LET a == l.w.nextId
                          w2 == Alloc(l.w, NewCargo("Recipe", st.recipe.def, None))
                      IN Ok(SetStep(w2, s, [st EXCEPT !.recipe = RecipeObj(a), !.cargo = a]))
                 ELSE Raise(l.w, StepValidationError)
            ELSE IF st.recipe.t # "Recipe"
            THEN Raise(l.w, StepValidationError)
            ELSE Ok(SetStep(l.w, s, [st EXCEPT !.cargo = st.recipe.obj]))

\* lines 128-153: the recipe branch
BindRecipe(w, s) == InstantiateRecipe(LookupRecipe(w, s), s)

\* a cab branch that hands out the cached cargo itself on a hit
BindCab_shared(w, s) ==
    LET st == w.steps[s]
    IN IF st.cab \in DOMAIN w.cabs
       THEN Ok(SetStep(w, s, [st EXCEPT !.cargo = w.cabs[st.cab]]))
       ELSE IF st.cab \notin config_cabs \/ st.cab \notin GoodCabDefs
       THEN Raise(w, StepValidationError)
       ELSE LET a == w.nextId
                w2 == Alloc(w, NewCargo("Cab", st.cab, CargoBackend(st.cab)))
                w3 == [w2 EXCEPT !.cabs = Update(@, [c \in {st.cab} |-> a])]
            IN Ok(SetStep(w3, s, [st EXCEPT !.cargo = a]))

\* lines 155-163: the cab branch
BindCab(w, s) ==
    LET st == w.steps[s]
    IN IF st.cab \in DOMAIN w.cabs
       THEN \* copy.copy of the cached cargo: a new object with the same attributes
            LET a == w.nextId
                w2 == Alloc(w, w.heap[w.cabs[st.cab]])
            IN Ok(SetStep(w2, s, [st EXCEPT !.cargo = a]))
       ELSE IF st.cab \notin config_cabs
       THEN Raise(w, StepValidationError)
       ELSE IF st.cab \notin GoodCabDefs
       THEN Raise(w, StepValidationError)
       ELSE LET a == w.nextId
                w2 == Alloc(w, NewCargo("Cab", st.cab, CargoBackend(st.cab)))
                w3 == [w2 EXCEPT !.cabs = Update(@, [c \in {st.cab} |-> a])]
            IN Ok(SetStep(w3, s, [st EXCEPT !.cargo = a]))

\* lines 178-180: self.defaults
ComputeDefaults(def) ==
    LET sd == SchemaDefault(def)
        fromSchema == [n \in {m \in DOMAIN sd : sd[m] # None /\ sd[m] # UnresolvedV} |-> sd[n]]
    IN Update(fromSchema, CargoDefaults(def))

\* a merge in which the defaults replace the supplied values
MergeDefaults_overwrite(params, defaults) == Update(params, defaults)

\* lines 183-185: set missing parameters from defaults
MergeDefaults(params, defaults) ==
    [n \in (DOMAIN params) \cup (DOMAIN defaults) |->
        IF n \in DOMAIN params THEN params[n] ELSE defaults[n]]

\* cargo.flatten_param_dict on a parameter dict that is already flat
flatten_param_dict(params) == [n \in DOMAIN params |-> params[n]]

\* lines 164-185, after the branch that binds the cargo ended as b. ext says which
\* external call raises, if any
FinishBinding(b, s, ext) ==
    LET w == b.w
        st == w.steps[s]
        a == st.cargo
        w1 == [w EXCEPT !.heap = [@ EXCEPT ![a].name = st.name]]
    IN IF b.raised # None THEN b
       ELSE IF ext = "flatten_raises" THEN Raise(w1, CargoException)
       ELSE LET st2 == [st EXCEPT !.params = flatten_param_dict(st.params)]
                w2 == SetStep(w1, s, st2)
            IN IF ext = "finalize_raises" THEN Raise(w2, CargoException)
               ELSE LET w3 == [w2 EXCEPT !.heap = [@ EXCEPT ![a].finalized = TRUE]]
                        d == ComputeDefaults(w3.heap[a].def)
                    IN Ok(SetStep(w3, s, [st2 EXCEPT !.defaults = d,
                                                     !.params = MergeDefaults(st2.params, d)]))

\* Step.finalize
finalize(w, s, fqname, ext) ==
    LET st == w.steps[s]
        w1 == IF fqname # None THEN SetStep(w, s, [st EXCEPT !.fqname = fqname]) ELSE w
    IN IF finalized(st) THEN Ok(w)
       ELSE FinishBinding(IF Truthy(st.recipe) THEN BindRecipe(w1, s) ELSE BindCab(w1, s),
                          s, ext)

ExtOutcomes == {"ok", "flatten_raises", "finalize_raises"}

-----------------------------------------------------------------------------
(* The validation engine, the substitution engine and the runners (external) *)

\* what a validation pass does to one parameter: it keeps the value, replaces it
\* by an Error or an Unresolved marker, or leaves it out of the returned dict
Outcome(mx, my) == [raises |-> FALSE, mark |-> [n \in ParamNames |-> IF n = "x" THEN mx ELSE my]]

\* a call that raises a ScabhaBaseException
Raises == [raises |-> TRUE, mark |-> [n \in ParamNames |-> "keep"]]

\* the outcomes of cargo.prevalidate and of cargo.validate_inputs: the input x may be
\* invalid, y may be unresolved, and validate_inputs may return a dict without y
PrevalidateOutcomes == {Raises} \cup {Outcome(mx, my) : mx \in {"keep", ErrorV}, my \in {"keep", UnresolvedV}}
InputOutcomes == PrevalidateOutcomes \cup {Outcome("keep", "drop")}

\* the outcomes of cargo.validate_outputs: the output y may be unresolved or invalid
OutputOutcomes == {Raises} \cup {Outcome("keep", my) : my \in {"keep", UnresolvedV, ErrorV}}

\* what evaluate_and_substitute does with the skip entry: its value, or it raises
SkipOutcomes == {PyTrue, PyFalse, "raise"}

\* the dict a validation pass returns for params: a kept parameter keeps its value,
\* a marker is reported for a name whether or not params holds it
Returned(e, params) ==
    [n \in {k \in ParamNames : e.mark[k] \in {ErrorV, UnresolvedV}
                                 \/ (e.mark[k] = "keep" /\ k \in DOMAIN params)} |->
        IF e.mark[n] = "keep" THEN params[n] ELSE e.mark[n]]

\* invalid_params and unresolved_params, as sets of names
invalid_params(st) == {n \in DOMAIN st.validated_params : st.validated_params[n] = ErrorV}
unresolved_params(st) == {n \in DOMAIN st.validated_params : st.validated_params[n] = UnresolvedV}

-----------------------------------------------------------------------------
(* Step.prevalidate *)

\* lines 191-198: f is the outcome of self.finalize()
cargo_prevalidate(f, s, pre) ==
    IF f.raised # None THEN f
    ELSE IF pre.raises THEN Raise(f.w, ScabhaBaseException)
    ELSE LET st == f.w.steps[s]
             st2 == [st EXCEPT !.validated_params = Returned(pre, st.params),
                               !.validated_none = FALSE]
             w2 == SetStep(f.w, s, st2)
         IN IF invalid_params(st2) # {} THEN Raise(w2, StepValidationError) ELSE Ok(w2)

prevalidate(w, s, ext, pre) == cargo_prevalidate(finalize(w, s, None, ext), s, pre)

-----------------------------------------------------------------------------
(* Step.run *)

\* the locals and effects of one run call
RunState(w, cur, default_backend) ==
    [w |-> w, cur |-> cur, default_backend |-> default_backend, raised |-> None, trace |-> <<>>, levels |-> {},
     skip |-> None, params |-> EmptyMap, validated |-> FALSE,
     runner_params |-> EmptyMap, backend |-> None, in_ret |-> EmptyMap,
     out_ret |-> EmptyMap,
     at |-> "", in_raised |-> FALSE, in_invalid |-> {}]

\* the calls recorded in a trace
Has(trace, e) == \E i \in 1..Len(trace) : trace[i] = e
Count(trace, e) == Cardinality({i \in 1..Len(trace) : trace[i] = e})

\* an exception leaves the call from phase at
Fail(R, exc, at) == [R EXCEPT !.raised = exc, !.at = at]
Event(R, e) == [R EXCEPT !.trace = Append(@, e)]
Log(R, level) == [R EXCEPT !.levels = @ \cup {level}]

\* lines 213-214
\* line 214 ended as p, and the finalize it began with as f
Prevalidated(R, p, f) ==
    [Event(R, "prevalidate") EXCEPT
        !.w = p.w, !.raised = p.raised,
        !.at = IF p.raised = None THEN ""
               ELSE IF f.raised # None THEN "finalize" ELSE "prevalidate"]

\* lines 213-214
RunPrevalidate(R, s, ext, pre) ==
    IF ~R.w.steps[s].validated_none THEN R
    ELSE Prevalidated(R, prevalidate(R.w, s, ext, pre), finalize(R.w, s, None, ext))

\* lines 221-225: sk is what evaluate_and_substitute yields for the skip entry
EvalSkip(R, s, subst, sk) ==
    LET st == R.w.steps[s]
    IN IF R.raised # None THEN R
       ELSE IF st._skip = None /\ subst
       THEN LET R1 == Event(R, "evaluate_and_substitute")
            IN IF sk = "raise" THEN Fail(R1, ScabhaBaseException, "evaluate_and_substitute")
               ELSE [R1 EXCEPT !.skip = sk]
       ELSE [R EXCEPT !.skip = st._skip]

\* an input validation exception is always raised up
SwallowsInputError_never(st, skip) == FALSE

\* line 252: whether an input validation exception is swallowed
SwallowsInputError(st, skip) == TruthyStr(st.skip)

\* line 269: whether invalid inputs are only warned about
ToleratesInvalidInputs(st, skip) == TruthyStr(st.skip)

\* lines 229-258
ValidateInputs(R, s, vin) ==
    LET st == R.w.steps[s]
        params == Update(st.validated_params, st.params)
        R1 == Event(R, "validate_inputs")
        merged(R2) ==
            LET st2 == [st EXCEPT !.validated_params = Update(@, R2.params)]
            IN [R2 EXCEPT !.w = SetStep(@, s, st2),
                          !.in_invalid = invalid_params(st2) \cup unresolved_params(st2)]
    IN IF R.raised # None THEN R
       ELSE IF vin.raises
       THEN LET R2 == Log([R1 EXCEPT !.params = params, !.in_raised = TRUE],
                          IF R.skip = PyTrue THEN "WARNING" ELSE "ERROR")
            IN IF SwallowsInputError(st, R.skip)
               THEN merged(Log(R2, "WARNING"))
               ELSE Fail(R2, ScabhaBaseException, "validate_inputs")
       ELSE merged([R1 EXCEPT !.params = Returned(vin, params), !.validated = TRUE,
                              !.in_ret = Returned(vin, params)])

\* a publication of the validated inputs that does not look at the skip decision
PublishInputs_when_skipped(R, subst) ==
    IF R.raised # None THEN R
    ELSE IF R.validated /\ subst THEN [R EXCEPT !.cur = R.params]
    ELSE R

\* lines 261-264
PublishInputs(R, subst) ==
    IF R.raised # None THEN R
    ELSE IF R.validated /\ R.skip # PyTrue /\ subst THEN [R EXCEPT !.cur = R.params]
    ELSE R

\* lines 267-275
CheckInputs(R, s) ==
    LET st == R.w.steps[s]
    IN IF R.raised # None THEN R
       ELSE IF invalid_params(st) \cup unresolved_params(st) # {}
       THEN IF ToleratesInvalidInputs(st, R.skip) THEN Log(R, "WARNING")
            ELSE Fail(R, StepValidationError, "check_inputs")
       ELSE R

\* a selection that prefers the cargo's backend to the step's
SelectBackend_cargo_first(step_backend, cargo_backend, default_backend) ==
    IF cargo_backend # None THEN cargo_backend
    ELSE IF step_backend # None THEN step_backend
    ELSE default_backend

\* lines 281-286
SelectBackend(step_backend, cargo_backend, default_backend) ==
    IF step_backend # None THEN step_backend
    ELSE IF cargo_backend # None THEN cargo_backend
    ELSE default_backend

\* a step is executed only when skip is the constant False
Executes_only_false(skip) == skip = PyFalse

\* line 277: whether the step is executed
Executes(skip) == skip # PyTrue

\* lines 277-294: rr says whether the runner raises
Dispatch(R, s, rr) ==
    LET st == R.w.steps[s]
        cargo == R.w.heap[st.cargo]
    IN IF R.raised # None THEN R
       ELSE IF ~Executes(R.skip) THEN R
       ELSE IF cargo.type = "Recipe"
       THEN LET R1 == [Event(R, "_run") EXCEPT !.runner_params = R.params]
            IN IF rr = "raise" THEN Fail(R1, "RunnerError", "dispatch") ELSE R1
       ELSE IF cargo.type = "Cab"
       THEN LET R1 == [Event(R, "run_cab") EXCEPT !.runner_params = R.params,
                          !.backend = SelectBackend(st.backend, cargo.backend, R.default_backend)]
            IN IF rr = "raise" THEN Fail(R1, "RunnerError", "dispatch") ELSE R1
       ELSE Fail(R, RuntimeError, "dispatch")

\* lines 296-323
ValidateOutputs(R, s, subst, vout) ==
    LET st == R.w.steps[s]
        R1 == Event(R, "validate_outputs")
    IN IF R.raised # None THEN R
       ELSE IF vout.raises
       THEN LET R2 == Log(R1, IF TruthyStr(st.skip) THEN "WARNING" ELSE "ERROR")
            IN IF R.skip = PyTrue THEN Log(R2, "WARNING")
               ELSE Fail(R2, ScabhaBaseException, "validate_outputs")
       ELSE LET params == Returned(vout, R.params)
            IN [R1 EXCEPT !.params = params, !.out_ret = params,
                          !.w = SetStep(@, s, [st EXCEPT !.validated_params = Update(@, params)]),
                          !.cur = IF subst THEN Update(@, params) ELSE @]

\* lines 326-332
CheckOutputs(R, s) ==
    LET st == R.w.steps[s]
        invalid == (invalid_params(st) \cup unresolved_params(st))
                       \cap CargoOutputs(R.w.heap[st.cargo].def)
    IN IF R.raised # None THEN R
       ELSE IF invalid # {}
       THEN IF R.skip = PyTrue THEN Log(R, "WARNING")
            ELSE Fail(R, StepValidationError, "check_outputs")
       ELSE R

\* lines 220-275 of the with block: skip, input validation, the check of the inputs
BeforeDispatch(R, s, subst, sk, vin) ==
    CHOOSE R4 \in {CheckInputs(R3, s) :
                      R3 \in {PublishInputs(R2, subst) :
                                 R2 \in {ValidateInputs(R1, s, vin) :
                                            R1 \in {EvalSkip(R, s, subst, sk)}}}} : TRUE

\* lines 296-332 of the with block: output validation and the check of the outputs
AfterDispatch(R, s, subst, vout) ==
    CHOOSE R2 \in {CheckOutputs(R1, s) : R1 \in {ValidateOutputs(R, s, subst, vout)}} : TRUE

\* the with statement: the sub-context is left when the block ends or raises
declare_subtask(R) == Event(R, "declare_subtask")

\* a sub-context that is closed by a call at the end of the block, which a raise skips
subtask_exit_on_return(R) == IF R.raised = None THEN Event(R, "subtask_exit") ELSE R

subtask_exit(R) == Event(R, "subtask_exit")

\* the sub-contexts a call has left open: entering the context opens one, leaving it
\* closes one
OpenSubtasks(trace) == Count(trace, "declare_subtask") - Count(trace, "subtask_exit")

-----------------------------------------------------------------------------
(* The state machine *)

\* what a call leaves for the properties to look at
Observation(op, s) ==
    [op |-> op, step |-> s, raised |-> None, at |-> "", cab |-> None, recipe |-> NoneVal,
     subst |-> FALSE, trace |-> <<>>, skip |-> None, levels |-> {},
     runner_params |-> EmptyMap, backend |-> None, in_ret |-> EmptyMap,
     out_ret |-> EmptyMap,
     in_raised |-> FALSE, in_invalid |-> {}, ret |-> EmptyMap, pre_cargo |-> 0]

\* a Recipe object built by the caller and passed inline to Step(recipe=...)
InlineRecipe == 1

\* the state of a fresh process, but for the configured default backend
Fresh ==
    /\ steps = EmptyMap
    /\ heap = [a \in {InlineRecipe} |-> [NewCargo("Recipe", "sub", None) EXCEPT !.name = "inline"]]
    /\ _instantiated_cabs = EmptyMap
    /\ nextId = InlineRecipe + 1
    /\ current = EmptyMap
    /\ threads = EmptyMap
    /\ last = Observation("", "")

Init == Fresh /\ opts_backend = "native"

Install(w) ==
    /\ steps' = w.steps
    /\ heap' = w.heap
    /\ _instantiated_cabs' = w.cabs
    /\ nextId' = w.nextId

Here == World(steps, heap, _instantiated_cabs, nextId)

\* Step(name=s, cab=.., recipe=.., params=.., skip=.., backend=..)
NewStep(s, cab, recipe, params, skip, backend) ==
    /\ s \notin DOMAIN steps
    /\ \E r \in {post_init(s, cab, recipe, params, skip, backend)} :
       /\ steps' = IF r.raised = None THEN Update(steps, [k \in {s} |-> r.step]) ELSE steps
       /\ last' = [Observation("__post_init__", s) EXCEPT
                      !.raised = r.raised, !.cab = cab, !.recipe = recipe]
       /\ UNCHANGED <<heap, _instantiated_cabs, nextId, current, opts_backend, threads>>

\* step.finalize(fqname=..); ext is the behaviour of the cargo's own methods
Finalize(s, fqname, ext) ==
    /\ s \in DOMAIN steps
    /\ \E f \in {finalize(Here, s, fqname, ext)} :
       /\ Install(f.w)
       /\ last' = [Observation("finalize", s) EXCEPT
                      !.raised = f.raised, !.pre_cargo = steps[s].cargo]
       /\ UNCHANGED <<current, opts_backend, threads>>

\* step.update_parameter(name, value)
update_parameter(s, name, value) ==
    /\ s \in DOMAIN steps
    /\ steps' = [steps EXCEPT ![s].params = Update(@, [n \in {name} |-> value])]
    /\ last' = Observation("update_parameter", s)
    /\ UNCHANGED <<heap, _instantiated_cabs, nextId, current, opts_backend, threads>>

\* step.cargo.name = n, by a client of the step
SetCargoName(s, n) ==
    /\ s \in DOMAIN steps
    /\ finalized(steps[s])
    /\ heap' = [heap EXCEPT ![steps[s].cargo].name = n]
    /\ last' = Observation("cargo.name", s)
    /\ UNCHANGED <<steps, _instantiated_cabs, nextId, current, opts_backend, threads>>

\* step.prevalidate(subst)
Prevalidate(s, ext, pre) ==
    /\ s \in DOMAIN steps
    /\ \E p \in {prevalidate(Here, s, ext, pre)} :
       /\ Install(p.w)
       /\ last' = [Observation("prevalidate", s) EXCEPT !.raised = p.raised]
       /\ UNCHANGED <<current, opts_backend, threads>>

\* the effects of step.run(subst) whose locals end as R; the namespace is passed
\* when subst is TRUE
Return(s, subst, R) ==
    /\ Install(R.w)
    /\ current' = R.cur
    /\ UNCHANGED <<opts_backend, threads>>
    /\ last' = [Observation("run", s) EXCEPT
                   !.raised = R.raised, !.at = R.at, !.subst = subst, !.trace = R.trace,
                   !.skip = R.skip, !.levels = R.levels, !.runner_params = R.runner_params,
                   !.backend = R.backend, !.in_ret = R.in_ret, !.out_ret = R.out_ret,
                   !.in_raised = R.in_raised,
                   !.in_invalid = R.in_invalid,
                   !.ret = IF R.raised = None THEN R.params ELSE EmptyMap]

\* Step.run. The outcome of each external call is chosen when the run reaches the
\* call: ext and pre in prevalidate, sk for the skip expression, vin and vout for the
\* two validation passes, rr for the runner
Run(s, subst) ==
    /\ s \in DOMAIN steps
    /\ \E ext \in (IF finalized(steps[s]) THEN {"ok"} ELSE ExtOutcomes),
          pre \in (IF steps[s].validated_none THEN PrevalidateOutcomes ELSE {Raises}) :
        \E R0 \in {RunPrevalidate(RunState(Here, current, opts_backend), s, ext, pre)} :
           IF R0.raised # None THEN Return(s, subst, R0)
           ELSE \E sk \in (IF steps[s]._skip = None /\ subst THEN SkipOutcomes ELSE {PyFalse}),
                   vin \in InputOutcomes :
                \E R1 \in {BeforeDispatch(declare_subtask(R0), s, subst, sk, vin)} :
                   IF R1.raised # None THEN Return(s, subst, subtask_exit(R1))
                   ELSE \E rr \in (IF Executes(R1.skip) THEN {"ok", "raise"} ELSE {"ok"}) :
                        \E R2 \in {Dispatch(R1, s, rr)} :
                           IF R2.raised # None THEN Return(s, subst, subtask_exit(R2))
                           ELSE \E vout \in OutputOutcomes :
                                \E R3 \in {subtask_exit(AfterDispatch(R2, s, subst, vout))} :
                                    Return(s, subst, R3)

-----------------------------------------------------------------------------
(* Binding: steps are constructed and finalized against the shared cache *)

Steps == {"s1", "s2"}

TargetCabs == {None, "copy", "sim", "badcab", "nocab"}

TargetRecipes ==
    {NoneVal, Str(<<"sub">>), Str(<<"nosuch">>), Str(<<"broken">>), Str(<<"empty">>),
     Str(<<"lib", "recipes", "sub">>), Str(<<"lib", "", "sub">>), Str(<<"nolib", "sub">>),
     Str(<<"lib", "recipes", "nosuch">>), lib_recipes["sub"], RecipeObj(InlineRecipe)}

GivenParams == {EmptyMap, [n \in {"x"} |-> "3"]}

Construct ==
    \E s \in Steps, cab \in TargetCabs, recipe \in TargetRecipes, params \in GivenParams :
        NewStep(s, cab, recipe, params, None, None)

FullNames == {None, "main.step"}

Bind == \E s \in Steps, fqname \in FullNames, ext \in ExtOutcomes : Finalize(s, fqname, ext)

Assign == \E s \in Steps, n \in ParamNames : update_parameter(s, n, "3")

Rename == \E s \in Steps : SetCargoName(s, "renamed")

Next == Construct \/ Bind \/ Assign \/ Rename

Spec == Init /\ [][Next]_vars

-----------------------------------------------------------------------------
(* Running: one step is constructed, prevalidated and run repeatedly *)

RunSteps == {"s1"}

RunCabs == {None, "copy", "sim"}

RunRecipes == {NoneVal, Str(<<"sub">>)}

SkipValues == {None, "", "True", "true", "1", "False", "false", "0", "{recipe.flag}"}

RunConstruct ==
    \E s \in RunSteps, cab \in RunCabs, recipe \in RunRecipes, params \in GivenParams,
       skip \in SkipValues :
        NewStep(s, cab, recipe, params, skip, None)

RunBind == \E s \in RunSteps, ext \in ExtOutcomes : Finalize(s, None, ext)

RunPrevalidateStep ==
    \E s \in RunSteps, ext \in ExtOutcomes, pre \in PrevalidateOutcomes : Prevalidate(s, ext, pre)

RunStep == \E s \in RunSteps, subst \in BOOLEAN : Run(s, subst)

NextRun == RunConstruct \/ RunBind \/ RunPrevalidateStep \/ RunStep

SpecRun == Init /\ [][NextRun]_vars

-----------------------------------------------------------------------------
(* Dispatching: a cab step is run under each setting of the three backends *)

Backends == {None, "slurm"}

InitDispatch == Fresh /\ opts_backend \in {None, "native"}

DispatchConstruct ==
    \E s \in RunSteps, cab \in GoodCabDefs, skip \in {None, "True", "{recipe.flag}"},
       backend \in Backends :
        NewStep(s, cab, NoneVal, EmptyMap, skip, backend)

NextDispatch == DispatchConstruct \/ RunBind \/ RunPrevalidateStep \/ RunStep

SpecDispatch == InitDispatch /\ [][NextDispatch]_vars

-----------------------------------------------------------------------------
(* Resolving: resolve_dotted_reference is called on every key of up to MaxSegments
   segments, against the configuration and each kind of current section *)

MaxSegments == 4

Segments == {"", "lib", "recipes", "sub", "empty", "nolib"}

Keys == UNION {[1..n -> Segments] : n \in 1..MaxSegments}

\* the current section: not supplied, an empty section, the section lib.recipes
Currents == {NoneVal, DictConfig("", EmptyMap), DictConfig("", lib_recipes)}

\* resolve_dotted_reference(key, CONFIG, current=cur, context=..)
ResolveCall(key, cur) ==
    /\ \E r \in {resolve_dotted_reference(key, CONFIG, cur)} :
          last' = [op |-> "resolve_dotted_reference", key |-> key, current |-> cur,
                   raised |-> r.raised,
                   section |-> IF r.raised = None THEN r.section ELSE NoneVal,
                   varname |-> IF r.raised = None THEN r.varname ELSE None]
    /\ UNCHANGED <<steps, heap, _instantiated_cabs, nextId, current, opts_backend, threads>>

\* one call from the fresh state: the function keeps nothing between calls
Resolve == last.op = "" /\ \E key \in Keys, cur \in Currents : ResolveCall(key, cur)

NextResolve == Resolve

SpecResolve == Init /\ [][NextResolve]_vars

-----------------------------------------------------------------------------
(* Finalizing concurrently: each cab step is finalized by a thread of its own, and
   the threads interleave between the statements of lines 122-185 *)

ConcurrentCabs == {"copy", "sim", "badcab", "nocab"}

ConcurrentConstruct ==
    \E s \in Steps, cab \in ConcurrentCabs : NewStep(s, cab, NoneVal, EmptyMap, None, None)

\* the thread of step s moves to position pc; obj is the Cab it has constructed, if any
At(s, pc, obj, built, wrote) ==
    Update(threads, [t \in {s} |-> [pc |-> pc, obj |-> obj, built |-> built, wrote |-> wrote]])

Moved(s, pc) == At(s, pc, threads[s].obj, threads[s].built, threads[s].wrote)

Position(s, pc) == s \in DOMAIN threads /\ threads[s].pc = pc

\* lines 122-128: a thread enters finalize on an unbound cab step
Enter(s) ==
    /\ s \in DOMAIN steps /\ s \notin DOMAIN threads
    /\ threads' = At(s, IF finalized(steps[s]) THEN "return" ELSE "155", 0, FALSE, FALSE)
    /\ last' = Observation("finalize", s)
    /\ UNCHANGED <<steps, heap, _instantiated_cabs, nextId, current, opts_backend>>

\* line 155: the check of the cache
CheckCache(s) ==
    /\ Position(s, "155")
    /\ threads' = Moved(s, IF steps[s].cab \in DOMAIN _instantiated_cabs THEN "156" ELSE "158")
    /\ last' = Observation("finalize", s)
    /\ UNCHANGED <<steps, heap, _instantiated_cabs, nextId, current, opts_backend>>

\* line 156: the copy of the cached cargo
CopyCached(s) ==
    /\ Position(s, "156")
    /\ heap' = Update(heap, [a \in {nextId} |-> heap[_instantiated_cabs[steps[s].cab]]])
    /\ nextId' = nextId + 1
    /\ steps' = [steps EXCEPT ![s].cargo = nextId]
    /\ threads' = Moved(s, "164")
    /\ last' = Observation("finalize", s)
    /\ UNCHANGED <<_instantiated_cabs, current, opts_backend>>

\* lines 158-159: the cab must be declared
CheckDeclared(s) ==
    /\ Position(s, "158")
    /\ threads' = Moved(s, IF steps[s].cab \in config_cabs THEN "161" ELSE "raised")
    /\ last' = [Observation("finalize", s) EXCEPT
                   !.raised = IF steps[s].cab \in config_cabs THEN None
                              ELSE StepValidationError]
    /\ UNCHANGED <<steps, heap, _instantiated_cabs, nextId, current, opts_backend>>

\* line 161, right-hand side: Cab(**config.cabs[self.cab])
ConstructCab(s) ==
    /\ Position(s, "161")
    /\ IF steps[s].cab \in GoodCabDefs
       THEN /\ heap' = Update(heap, [a \in {nextId} |->
                                       NewCargo("Cab", steps[s].cab, CargoBackend(steps[s].cab))])
            /\ nextId' = nextId + 1
            /\ threads' = At(s, "161=", nextId, TRUE, FALSE)
            /\ last' = Observation("finalize", s)
       ELSE /\ threads' = Moved(s, "raised")
            /\ last' = [Observation("finalize", s) EXCEPT !.raised = StepValidationError]
            /\ UNCHANGED <<heap, nextId>>
    /\ UNCHANGED <<steps, _instantiated_cabs, current, opts_backend>>

\* line 161, the two assignments: self.cargo, then the cache entry
InsertCab(s) ==
    /\ Position(s, "161=")
    /\ steps' = [steps EXCEPT ![s].cargo = threads[s].obj]
    /\ _instantiated_cabs' = Update(_instantiated_cabs, [c \in {steps[s].cab} |-> threads[s].obj])
    /\ threads' = At(s, "164", threads[s].obj, TRUE, TRUE)
    /\ last' = Observation("finalize", s)
    /\ UNCHANGED <<heap, nextId, current, opts_backend>>

\* lines 164-185
FinishCab(s, ext) ==
    /\ Position(s, "164")
    /\ \E f \in {FinishBinding(Ok(Here), s, ext)} :
          /\ Install(f.w)
          /\ threads' = Moved(s, IF f.raised = None THEN "return" ELSE "raised")
          /\ last' = [Observation("finalize", s) EXCEPT !.raised = f.raised]
    /\ UNCHANGED <<current, opts_backend>>

ThreadStep ==
    \E s \in Steps :
        \/ Enter(s)
        \/ CheckCache(s)
        \/ CopyCached(s)
        \/ CheckDeclared(s)
        \/ ConstructCab(s)
        \/ InsertCab(s)
        \/ \E ext \in ExtOutcomes : FinishCab(s, ext)

NextConcurrent == ConcurrentConstruct \/ ThreadStep

SpecConcurrent == Init /\ [][NextConcurrent]_vars

-----------------------------------------------------------------------------
(* Properties *)

Before(trace, a, b) ==
    \A i, j \in 1..Len(trace) : (trace[i] = a /\ trace[j] = b) => i < j

RunnerCalls(trace) == Count(trace, "run_cab") + Count(trace, "_run")

\* the last call was a run that reached input validation
RanInputValidation == last.op = "run" /\ Has(last.trace, "validate_inputs")

\* input validation raised, or left an invalid or unresolved parameter
InputsBad == last.in_raised \/ last.in_invalid # {}

\* C1: a run whose skip decision is false and whose input validation raises or
\* leaves an invalid or unresolved parameter raises, and calls no runner
C1_NotSkippedBadInputsRaise ==
    (RanInputValidation /\ last.skip # PyTrue /\ InputsBad)
        => /\ last.raised \in {StepValidationError, ScabhaBaseException}
           /\ RunnerCalls(last.trace) = 0

\* C2: a run of a prevalidated step whose skip decision is true and whose input
\* validation reports invalid or unresolved parameters returns normally, logs them
\* at WARNING and never at ERROR, and calls no runner
C2_SkippedBadInputsWarn ==
    (RanInputValidation /\ ~Has(last.trace, "prevalidate") /\ last.skip = PyTrue /\ InputsBad)
        => /\ last.raised = None
           /\ "WARNING" \in last.levels
           /\ "ERROR" \notin last.levels
           /\ RunnerCalls(last.trace) = 0

C2_Witness ==
    /\ RanInputValidation /\ ~Has(last.trace, "prevalidate") /\ last.skip = PyTrue
    /\ last.in_raised /\ last.in_invalid = {"y"}
    /\ last.raised = None

\* C3: a run whose skip decision is false and whose input validation succeeds and
\* leaves no invalid or unresolved parameter calls the runner of its cargo's kind
\* exactly once, after validate_inputs and before validate_outputs, with the dict
\* validate_inputs returned; a run whose skip decision is true calls no runner
C3_DispatchOnce ==
    /\ (RanInputValidation /\ last.skip # PyTrue /\ ~InputsBad)
          => LET kind == heap[steps[last.step].cargo].type
                 runner == IF kind = "Cab" THEN "run_cab" ELSE "_run"
             IN /\ RunnerCalls(last.trace) = 1
                /\ Count(last.trace, runner) = 1
                /\ Before(last.trace, "validate_inputs", runner)
                /\ Before(last.trace, runner, "validate_outputs")
                /\ last.runner_params = last.in_ret
    /\ (last.op = "run" /\ last.skip = PyTrue) => RunnerCalls(last.trace) = 0

C3_Witness ==
    /\ RanInputValidation /\ last.skip = None /\ ~InputsBad
    /\ heap[steps[last.step].cargo].type = "Recipe"
    /\ Has(last.trace, "_run") /\ Has(last.trace, "validate_outputs")
    /\ last.runner_params = [n \in {"x"} |-> "3"]

\* the phases of run that are validation passes
ValidationPhases ==
    {"prevalidate", "validate_inputs", "check_inputs", "validate_outputs", "check_outputs"}

\* C4: a run of a step whose skip decision is true is not made to raise by any
\* validation pass, the prevalidation run triggers itself included
C4_SkipNeverRaisesOnValidation ==
    (last.op = "run" /\ (last.skip = PyTrue \/ steps[last.step]._skip = PyTrue))
        => last.at \notin ValidationPhases

\* C5: finalize on a step that is already bound changes neither the step (its
\* cargo, its params) nor the heap nor the binding cache, whatever it is passed
C5_FinalizeBoundNoop ==
    [][\A s \in DOMAIN steps :
          (steps[s].cargo # 0 /\ last'.op = "finalize" /\ last'.step = s /\ last' # last)
              => /\ steps' = steps
                 /\ heap' = heap
                 /\ _instantiated_cabs' = _instantiated_cabs
                 /\ nextId' = nextId
                 /\ last'.raised = None]_vars

C5_Witness ==
    /\ last.op = "finalize" /\ last.pre_cargo # 0
    /\ steps[last.step].cab = "copy"
    /\ "copy" \in DOMAIN _instantiated_cabs

\* two distinct bound steps that reference the same task name
SameTask(st, s, t) ==
    /\ s # t /\ s \in DOMAIN st /\ t \in DOMAIN st
    /\ TruthyStr(st[s].cab) /\ st[s].cab = st[t].cab
    /\ finalized(st[s]) /\ finalized(st[t])

\* C6: two distinct steps bound to the same task name hold distinct cargo objects;
\* the finalize that binds one names its cargo after its step and leaves the name
\* of the other's cargo alone, and so does a later assignment to one cargo's name
C6_IndependentCargos ==
    [][\A s, t \in Steps :
          SameTask(steps', s, t)
              => /\ steps'[s].cargo # steps'[t].cargo
                 /\ (last'.op = "finalize" /\ last'.step = s /\ ~finalized(steps[s]))
                       => /\ heap'[steps'[s].cargo].name = steps'[s].name
                          /\ heap'[steps'[t].cargo].name = heap[steps[t].cargo].name
                 /\ (last'.op = "cargo.name" /\ last'.step = s)
                       => heap'[steps'[t].cargo].name = heap[steps[t].cargo].name]_vars

C6_Witness ==
    /\ SameTask(steps, "s1", "s2")
    /\ last.op = "cargo.name" /\ last.step = "s2"
    /\ heap[steps["s2"].cargo].name = "renamed"
    /\ heap[steps["s1"].cargo].name = "s1"
    /\ _instantiated_cabs[steps["s1"].cab] = steps["s1"].cargo

\* the defaults as the schema and the cargo declare them
DeclaredDefault(def, n) ==
    IF n \in DOMAIN CargoDefaults(def) THEN CargoDefaults(def)[n] ELSE SchemaDefault(def)[n]
DefaultNames(def) ==
    {n \in ParamNames : SchemaDefault(def)[n] \notin {None, UnresolvedV}}
        \cup DOMAIN CargoDefaults(def)

TrueTokens == {"True", "true", "1"}
FalseTokens == {"False", "false", "0"}

\* C8: a run of a step whose skip is a literal token, unset or empty never calls the
\* substitution engine for skip, and its skip decision is the one the token fixes
C8_LiteralSkipFixed ==
    (last.op = "run" /\ steps[last.step].skip \in TrueTokens \cup FalseTokens \cup {None, ""})
        => /\ ~Has(last.trace, "evaluate_and_substitute")
           /\ Has(last.trace, "declare_subtask")
                 => last.skip = IF steps[last.step].skip \in TrueTokens THEN PyTrue ELSE PyFalse

C8_Witness ==
    /\ last.op = "run" /\ last.subst /\ steps[last.step].skip = "1"
    /\ last.skip = PyTrue /\ last.raised = None

\* C9: the constructor raises when given both targets or neither, and builds no
\* step; every step that exists has exactly one of cab and recipe set
C9_ExactlyOneTarget ==
    /\ \A s \in DOMAIN steps : TruthyStr(steps[s].cab) # Truthy(steps[s].recipe)
    /\ (last.op = "__post_init__" /\ TruthyStr(last.cab) = Truthy(last.recipe))
          => last.raised = StepValidationError /\ last.step \notin DOMAIN steps

\* C10: the backend passed to run_cab is the step's if set, else the cargo's if set,
\* else the configured default
C10_BackendPrecedence ==
    (last.op = "run" /\ Has(last.trace, "run_cab"))
        => LET sb == steps[last.step].backend
               cb == heap[steps[last.step].cargo].backend
           IN /\ sb # None => last.backend = sb
              /\ (sb = None /\ cb # None) => last.backend = cb
              /\ (sb = None /\ cb = None) => last.backend = opts_backend

C10_Witness ==
    /\ last.op = "run" /\ Has(last.trace, "run_cab")
    /\ steps[last.step].backend = None
    /\ heap[steps[last.step].cargo].backend = "kube"
    /\ opts_backend = "native"
    /\ last.backend = "kube"

\* the segments the resolver walks and the section it starts from
PathOf(key) == IF key[1] = "" THEN Tail(key) ELSE key
StartOf(key, cur) == IF key[1] = "" THEN cur ELSE CONFIG

\* the nested entries of a section
Entries(section) == IF section.t = "DictConfig" THEN DOMAIN section.sub ELSE {}

\* every non-final segment of path, from position i on, is an entry of the section
\* reached so far
RECURSIVE AllExist(_, _, _)
AllExist(section, path, i) ==
    \/ i >= Len(path)
    \/ /\ path[i] \in Entries(section)
       /\ AllExist(section.sub[path[i]], path, i + 1)

\* the section reached by walking the non-final segments of path from position i on
RECURSIVE Reach(_, _, _)
Reach(section, path, i) ==
    IF i >= Len(path) THEN section ELSE Reach(section.sub[path[i]], path, i + 1)

\* the keys C11 lists, for a call with current section cur
LeadingNoCurrent(key, cur) == Len(key) >= 2 /\ key[1] = "" /\ cur = NoneVal
ExactlySeparator(key) == key = <<"", "">>
DoubledSeparator(key) == \E i \in 2..(Len(key) - 1) : key[i] = ""
MissingSegment(key, cur) ==
    /\ Len(key) >= 2
    /\ PathOf(key) # <<>>
    /\ ~AllExist(StartOf(key, cur), PathOf(key), 1)

\* C11: resolve_dotted_reference raises the reference error (Python's NameError)
\* for a key with a leading separator and no current section, for the key that is
\* exactly the separator, for a key with an empty intermediate segment, and for a key
\* with a non-final segment that is not an entry of the section being walked
C11_MalformedKeysRaise ==
    (last.op = "resolve_dotted_reference"
        /\ (\/ LeadingNoCurrent(last.key, last.current)
            \/ ExactlySeparator(last.key)
            \/ DoubledSeparator(last.key)
            \/ MissingSegment(last.key, last.current)))
        => last.raised = NameError

\* a key whose segments, after an optional leading separator, are all non-empty and
\* whose non-final segments all exist as nested entries; with a leading separator
\* the current section is supplied
Resolvable(key, cur) ==
    /\ PathOf(key) # <<>>
    /\ \A i \in 1..Len(PathOf(key)) : PathOf(key)[i] # ""
    /\ key[1] = "" => cur # NoneVal
    /\ AllExist(StartOf(key, cur), PathOf(key), 1)

\* C12: for a resolvable key resolve_dotted_reference returns the section reached by
\* walking the non-final segments (from the configuration, or from the current
\* section for a key with a leading separator) and the last segment, whether or not
\* the last segment is an entry of that section
C12_ResolvableKeysReturn ==
    (last.op = "resolve_dotted_reference" /\ Resolvable(last.key, last.current))
        => /\ last.raised = None
           /\ last.section = Reach(StartOf(last.key, last.current), PathOf(last.key), 1)
           /\ last.varname = last.key[Len(last.key)]

\* C13: a finalize that fails before it has bound a cargo (the recipe is not found,
\* the dotted reference is malformed or leads nowhere, the recipe has the wrong type
\* or cannot be instantiated, the cab is unknown or cannot be constructed) raises
\* StepValidationError and no other exception
C13_BindingFailuresWrapped ==
    (last.op = "finalize" /\ last.raised # None /\ steps[last.step].cargo = 0)
        => last.raised = StepValidationError

\* the threads that have constructed, and that have written the cache entry of, cab
Constructors(cab) == {s \in DOMAIN threads : steps[s].cab = cab /\ threads[s].built}
Writers(cab) == {s \in DOMAIN threads : steps[s].cab = cab /\ threads[s].wrote}

\* C14: however the finalize calls of distinct steps on one task name interleave,
\* the task definition is constructed at most once and its cache entry is written at
\* most once
C14_CheckThenInsertExclusive ==
    \A cab \in ConcurrentCabs :
        /\ Cardinality(Constructors(cab)) <= 1
        /\ Cardinality(Writers(cab)) <= 1

\* C15: the object the binding cache holds for a task name is the cargo of no step,
\* and a call that is not a finalize (an assignment to a step's cargo) leaves every
\* cached object as it was
C15_CacheEntryOwnedByNoStep ==
    [][/\ \A s \in DOMAIN steps', cab \in DOMAIN _instantiated_cabs' :
             steps'[s].cargo # _instantiated_cabs'[cab]
       /\ last'.op = "cargo.name"
             => \A cab \in DOMAIN _instantiated_cabs :
                   heap'[_instantiated_cabs[cab]] = heap[_instantiated_cabs[cab]]]_vars

\* C16: in a run of a prevalidated step, validated_params ends as it began with the
\* dict validate_inputs returned merged over it, and the dict validate_outputs returned
\* merged over that; a pass that raised returned nothing and so writes nothing
C16_PassesMergeWhatEngineReturned ==
    [][\A s \in DOMAIN steps :
          (last'.op = "run" /\ last'.step = s /\ ~Has(last'.trace, "prevalidate")
               /\ Has(last'.trace, "validate_inputs"))
              => steps'[s].validated_params =
                     Update(Update(steps[s].validated_params, last'.in_ret), last'.out_ret)]_vars

\* C17: every run leaves as many sub-contexts open as it found: the one it opens is
\* closed when it returns, when a validation pass or a check raises, and when the
\* runner raises, and the close is the last thing the run does
C17_SubtaskClosedOnEveryExit ==
    last.op = "run"
        => /\ OpenSubtasks(last.trace) = 0
           /\ Has(last.trace, "declare_subtask")
                 => last.trace[Len(last.trace)] = "subtask_exit"

C17_Witness ==
    /\ last.op = "run" /\ last.raised = "RunnerError" /\ last.at = "dispatch"
    /\ Has(last.trace, "run_cab")
    /\ Count(last.trace, "declare_subtask") = 1
    /\ last.trace[Len(last.trace)] = "subtask_exit"

\* C18: a finalize on an unbound step that raises, wherever it raises, leaves the
\* step unbound
C18_FailedFinalizeLeavesUnbound ==
    (last.op = "finalize" /\ last.raised # None /\ last.pre_cargo = 0)
        => ~finalized(steps[last.step])

\* C19: a prevalidate that raises StepValidationError leaves validated_params as it
\* was before the call: None on a first call
C19_FailedPrevalidateKeepsValidated ==
    [][\A s \in DOMAIN steps :
          (last'.op = "prevalidate" /\ last'.step = s /\ last'.raised = StepValidationError)
              => /\ steps'[s].validated_none = steps[s].validated_none
                 /\ steps'[s].validated_params = steps[s].validated_params]_vars

\* C20, as claimed: a run whose skip decision is true leaves the current scope of
\* the substitution namespace unchanged
C20_SkippedRunLeavesCurrent ==
    [][(last'.op = "run" /\ last'.skip = PyTrue) => current' = current]_vars

\* C20, amended: a run whose skip decision is true does not publish its validated
\* inputs as the current scope; it changes the scope only by merging into it the dict
\* a successful output validation returned, and not at all when that validation
\* raised or when no namespace was passed
C20_SkippedRunMergesOutputsOnly ==
    [][(last'.op = "run" /\ last'.skip = PyTrue)
          => current' = IF last'.subst THEN Update(current, last'.out_ret) ELSE current]_vars

C20_Witness ==
    /\ last.op = "run" /\ last.skip = PyTrue /\ last.subst /\ last.raised = None
    /\ last.in_ret = [n \in {"x"} |-> "3"]
    /\ last.out_ret = [n \in ParamNames |-> IF n = "x" THEN "3" ELSE UnresolvedV]
    /\ current = last.out_ret

====
